---------------------------- MODULE Spec2Model ----------------------------
(***************************************************************************)
(* Model of the casbin middleware of echo-contrib (src/casbin/casbin.go).  *)
(*                                                                         *)
(* Strings are sequences of byte values.  The Authorization header is the  *)
(* byte sequence the client sent (the empty sequence when the header is    *)
(* absent: http.Header.Get returns "" for both).  Base64 and the JSON      *)
(* object of a token's payload are decoded as the Go standard library      *)
(* decodes them, so that what the client encoded and what the middleware   *)
(* reads back can differ.                                                  *)
(*                                                                         *)
(* The policy engine (casbin.Enforcer), the skipper and the next handler   *)
(* are collaborators behind the middleware: their answers are chosen       *)
(* nondeterministically.                                                   *)
(***************************************************************************)
EXTENDS Integers, Sequences, FiniteSets, Bags, TLC

(***************************************************************************)
(* Bounds of the model.                                                    *)
(***************************************************************************)
\* Middleware instances built during one run.
MaxMiddlewares == 2
\* Requests in flight at the same time.
MaxRequests == 2
\* Longest user name or subject the enumerated credentials carry.
MaxNameLen == 2

(***************************************************************************)
(* AuthenticationType (iota constants).                                    *)
(***************************************************************************)
BasicAuth == 0
JwtAuth == 1
\* A value of the int type that is neither of the two declared constants.
OtherAuthTypes == {2}
AuthTypes == {BasicAuth, JwtAuth} \cup OtherAuthTypes

(***************************************************************************)
(* Byte strings.                                                           *)
(***************************************************************************)
\* "Basic " and "Bearer " (with the trailing space), "." and ":".
BasicPrefix == <<66, 97, 115, 105, 99, 32>>
BearerPrefix == <<66, 101, 97, 114, 101, 114, 32>>
Dot == <<46>>
ColonStr == <<58>>
\* The key "sub" of jwtClaims.Sub's json tag.
SubKey == <<115, 117, 98>>
IssKey == <<105, 115, 115>>

\* ASCII lower-casing, as used by the case-insensitive comparisons.
LowerByte(c) == IF c >= 65 /\ c <= 90 THEN c + 32 ELSE c
Lower(s) == [i \in 1..Len(s) |-> LowerByte(s[i])]
EqualFold(s, t) == Lower(s) = Lower(t)

\* Index of the first occurrence of byte c in s at or after position i, 0 if none.
RECURSIVE IndexFrom(_, _, _)
IndexFrom(s, c, i) ==
    IF i > Len(s) THEN 0
    ELSE IF s[i] = c THEN i
    ELSE IndexFrom(s, c, i + 1)

\* strings.Split(s, sep) for a one-byte separator: always at least one element.
RECURSIVE SplitFrom(_, _, _)
SplitFrom(s, c, i) ==
    LET j == IndexFrom(s, c, i)
    IN  IF j = 0 THEN <<SubSeq(s, i, Len(s))>>
        ELSE <<SubSeq(s, i, j - 1)>> \o SplitFrom(s, c, j + 1)
Split(s, c) == SplitFrom(s, c, 1)

(***************************************************************************)
(* encoding/base64.                                                        *)
(***************************************************************************)
\* The value -> character tables of StdEncoding and URLEncoding.
AlphabetChar(url, v) ==
    IF v < 26 THEN 65 + v
    ELSE IF v < 52 THEN 97 + (v - 26)
    ELSE IF v < 62 THEN 48 + (v - 52)
    ELSE IF v = 62 THEN (IF url THEN 45 ELSE 43)
    ELSE (IF url THEN 95 ELSE 47)

\* The character -> value table (decodeMap); -1 for a character outside it.
AlphabetValue(url, c) ==
    IF \E v \in 0..63 : AlphabetChar(url, v) = c
    THEN CHOOSE v \in 0..63 : AlphabetChar(url, v) = c
    ELSE -1

\* Encoder: three bytes give four characters; a tail of one or two bytes gives
\* two or three characters, followed by '=' when the encoding is padded.
RECURSIVE EncodeFrom(_, _, _, _)
EncodeFrom(url, padded, b, i) ==
    LET n == Len(b) - i + 1
        ch(v) == AlphabetChar(url, v)
    IN  IF n <= 0 THEN <<>>
        ELSE IF n = 1 THEN
            <<ch(b[i] \div 4), ch((b[i] % 4) * 16)>>
                \o (IF padded THEN <<61, 61>> ELSE <<>>)
        ELSE IF n = 2 THEN
            <<ch(b[i] \div 4), ch((b[i] % 4) * 16 + b[i+1] \div 16),
              ch((b[i+1] % 16) * 4)>>
                \o (IF padded THEN <<61>> ELSE <<>>)
        ELSE
            <<ch(b[i] \div 4), ch((b[i] % 4) * 16 + b[i+1] \div 16),
              ch((b[i+1] % 16) * 4 + b[i+2] \div 64), ch(b[i+2] % 64)>>
                \o EncodeFrom(url, padded, b, i + 3)
Encode(url, padded, b) == EncodeFrom(url, padded, b, 1)

\* Number of trailing '=' of s.
RECURSIVE PadCount(_)
PadCount(s) ==
    IF Len(s) > 0 /\ s[Len(s)] = 61 THEN 1 + PadCount(SubSeq(s, 1, Len(s) - 1))
    ELSE 0

\* Bytes of the 6-bit values v, from position i: four values give three bytes,
\* a tail of two or three values gives one or two (left-over bits are dropped).
RECURSIVE BytesFrom(_, _)
BytesFrom(v, i) ==
    LET n == Len(v) - i + 1
    IN  IF n <= 1 THEN <<>>
        ELSE IF n = 2 THEN <<v[i] * 4 + v[i+1] \div 16>>
        ELSE IF n = 3 THEN
            <<v[i] * 4 + v[i+1] \div 16, (v[i+1] % 16) * 16 + v[i+2] \div 4>>
        ELSE
            <<v[i] * 4 + v[i+1] \div 16, (v[i+1] % 16) * 16 + v[i+2] \div 4,
              (v[i+2] % 4) * 64 + v[i+3]>> \o BytesFrom(v, i + 4)

\* Encoding.DecodeString: [ok, bytes].  A character outside the alphabet, a
\* quantum of one character, and wrong or (for a raw encoding) any padding
\* are errors.
DecodeString(url, padded, s) ==
    LET p == IF padded THEN PadCount(s) ELSE 0
        data == SubSeq(s, 1, Len(s) - p)
        vals == [i \in 1..Len(data) |-> AlphabetValue(url, data[i])]
        okChars == \A i \in 1..Len(data) : vals[i] >= 0
        okShape == IF padded
                   THEN /\ Len(s) % 4 = 0
                        /\ p <= 2
                        /\ (p > 0 => Len(data) % 4 = 4 - p)
                   ELSE Len(data) % 4 # 1
    IN  IF okChars /\ okShape
        THEN [ok |-> TRUE, bytes |-> BytesFrom(vals, 1)]
        ELSE [ok |-> FALSE, bytes |-> <<>>]

(***************************************************************************)
(* encoding/json.Unmarshal into jwtClaims, for a flat object whose keys    *)
(* and values are strings without escapes; any other text is rejected as   *)
(* a syntax error and leaves the claims at their zero value.               *)
(***************************************************************************)
\* Position of the quote closing the string whose content starts at i; 0 when
\* the string is unterminated or holds a control character or a backslash.
RECURSIVE StringEnd(_, _)
StringEnd(b, i) ==
    IF i > Len(b) THEN 0
    ELSE IF b[i] = 34 THEN i
    ELSE IF b[i] < 32 \/ b[i] = 92 THEN 0
    ELSE StringEnd(b, i + 1)

\* Members of the object from position i; sub is the value of the last "sub"
\* key seen so far.  [ok, sub].
RECURSIVE Members(_, _, _)
Members(b, i, sub) ==
    LET ke == IF i <= Len(b) /\ b[i] = 34 THEN StringEnd(b, i + 1) ELSE 0
        ve == IF ke > 0 /\ ke + 2 <= Len(b) /\ b[ke+1] = 58 /\ b[ke+2] = 34
              THEN StringEnd(b, ke + 3) ELSE 0
        key == SubSeq(b, i + 1, ke - 1)
        val == SubSeq(b, ke + 3, ve - 1)
        sub2 == IF EqualFold(key, SubKey) THEN val ELSE sub
    IN  IF ve = 0 \/ ve + 1 > Len(b) THEN [ok |-> FALSE, sub |-> <<>>]
        ELSE IF b[ve+1] = 125
            THEN [ok |-> ve + 1 = Len(b), sub |-> IF ve + 1 = Len(b) THEN sub2 ELSE <<>>]
        ELSE IF b[ve+1] = 44 THEN Members(b, ve + 2, sub2)
        ELSE [ok |-> FALSE, sub |-> <<>>]

\* json.Unmarshal(body, &jwtClaims{}) followed by the read of .Sub: the error
\* is dropped, so invalid JSON reads as the empty string.
UnmarshalSub(body) ==
    IF Len(body) >= 2 /\ body[1] = 123
    THEN IF body = <<123, 125>> THEN <<>> ELSE Members(body, 2, <<>>).sub
    ELSE <<>>


(***************************************************************************)
(* User-name extraction.  A result is [panic, name]: panic is TRUE when    *)
(* the Go runtime aborts the call (index out of range).                    *)
(***************************************************************************)
Name(n) == [panic |-> FALSE, name |-> n]
Panicked == [panic |-> TRUE, name |-> <<>>]

\* http.Request.BasicAuth as read by getUserNameBasicAuth: the user name of
\* "Basic " + base64(user ":" password), and "" for anything else.
getUserNameBasicAuth(header) ==
    LET n == Len(BasicPrefix)
        dec == DecodeString(FALSE, TRUE, SubSeq(header, n + 1, Len(header)))
        colon == IndexFrom(dec.bytes, 58, 1)
    IN  IF Len(header) < n \/ ~EqualFold(SubSeq(header, 1, n), BasicPrefix)
        THEN Name(<<>>)
        ELSE IF ~dec.ok \/ colon = 0 THEN Name(<<>>)
        ELSE Name(SubSeq(dec.bytes, 1, colon - 1))

\* getUserNameJwtAuth: splitToken[1] of the header split at ".", decoded with
\* base64.RawStdEncoding, then the "sub" member of the JSON object.
getUserNameJwtAuth(header) ==
    LET splitToken == Split(header, 46)
        dec == DecodeString(FALSE, FALSE, splitToken[2])
    IN  IF Len(splitToken) < 2 THEN Panicked
        ELSE IF ~dec.ok THEN Name(<<>>)
        ELSE Name(UnmarshalSub(dec.bytes))

GetUserName(authType, header) ==
    IF authType = BasicAuth THEN getUserNameBasicAuth(header)
    ELSE IF authType = JwtAuth THEN getUserNameJwtAuth(header)
    ELSE Name(<<>>)

(***************************************************************************)
(* Credentials as clients build them (RFC 7617, RFC 7519 / RFC 7515).      *)
(***************************************************************************)
NameChars == {97, 126}
RECURSIVE NamesUpTo(_)
NamesUpTo(n) ==
    IF n = 0 THEN {<<>>}
    ELSE LET shorter == NamesUpTo(n - 1)
         IN  shorter \cup {Append(s, c) : s \in shorter, c \in NameChars}
Names == NamesUpTo(MaxNameLen)

Quoted(s) == <<34>> \o s \o <<34>>
\* {"sub":"<sub>"} and {"iss":"i","sub":"<sub>"}.
SubClaims(sub) == <<123>> \o Quoted(SubKey) \o ColonStr \o Quoted(sub) \o <<125>>
IssSubClaims(sub) ==
    <<123>> \o Quoted(IssKey) \o ColonStr \o Quoted(<<105>>) \o <<44>>
        \o Quoted(SubKey) \o ColonStr \o Quoted(sub) \o <<125>>
\* {"alg":"none"}, the JOSE header of the enumerated tokens.
JoseHeader ==
    <<123, 34, 97, 108, 103, 34, 58, 34, 110, 111, 110, 101, 34, 125>>

\* "Basic " + base64(user ":" "p").
BasicHeader(user) ==
    BasicPrefix \o Encode(FALSE, TRUE, user \o ColonStr \o <<112>>)
\* "Bearer " + base64url(header) "." base64url(claims) "." signature.
BearerHeader(claims) ==
    BearerPrefix \o Encode(TRUE, FALSE, JoseHeader) \o Dot
        \o Encode(TRUE, FALSE, claims) \o Dot \o <<115>>

\* What a client puts in the Authorization header: nothing, basic or bearer
\* credentials for a name, or a value that is no credential of either kind:
\* "Bearer x", "Bearer a.b.c" (a segment of one character) and "Bearer a.bb.c"
\* (a segment that decodes, but to no JSON object).
Cred(kind, name) == [kind |-> kind, name |-> name]
NoCred == Cred("none", <<>>)
MalformedCreds == {Cred(k, <<>>) : k \in {"nodot", "shortseg", "notjson"}}
NamedCreds == {Cred(k, n) : k \in {"basic", "bearer", "bearer_iss"}, n \in Names}
Creds == {NoCred} \cup MalformedCreds \cup NamedCreds

HeaderOf(cred) ==
    CASE cred.kind = "none" -> <<>>
      [] cred.kind = "basic" -> BasicHeader(cred.name)
      [] cred.kind = "bearer" -> BearerHeader(SubClaims(cred.name))
      [] cred.kind = "bearer_iss" -> BearerHeader(IssSubClaims(cred.name))
      [] cred.kind = "nodot" -> BearerPrefix \o <<120>>
      [] cred.kind = "shortseg" -> BearerPrefix \o <<97, 46, 98, 46, 99>>
      [] OTHER -> BearerPrefix \o <<97, 46, 98, 98, 46, 99>>

(***************************************************************************)
(* Configurations, requests and the collaborators' answers.                *)
(***************************************************************************)
NilSkipper == "nil"
NilEnforcer == "nil"
\* middleware.DefaultSkipper, and a skipper an application may configure.
Skippers == {"DefaultSkipper", "SkipPublic"}
Enforcers == {"e1", "e2"}
Configs ==
    [Skipper : Skippers \cup {NilSkipper},
     Enforcer : Enforcers \cup {NilEnforcer},
     AuthType : AuthTypes]

Paths == {"/public", "/data"}
Methods == {"GET", "POST"}

\* Errors Enforce may return beside nil, and what the next handler may return.
NoErr == "nil"
EnforceErrs == {NoErr, "invalid request size"}
NextRets == {NoErr, "next failed"}

\* What the handler does with a request: nothing yet, the next handler's
\* result, an *echo.HTTPError, or a run-time panic.
NoOutcome == [kind |-> "none", code |-> 0, msg |-> ""]
NextOutcome(ret) == [kind |-> "next", code |-> 0, msg |-> ret]
HTTPError(code, msg) == [kind |-> "http", code |-> code, msg |-> msg]
ErrForbidden == HTTPError(403, "Forbidden")
PanicOutcome == [kind |-> "panic", code |-> 0, msg |-> ""]

NoRet == [pass |-> FALSE, err |-> "none"]

VARIABLES
    DefaultConfig,  \* the package-level variable
    mws,            \* the middleware instances built so far
    reqs            \* the requests in flight (a bag of request records)

vars == <<DefaultConfig, mws, reqs>>

InFlight == BagToSet(reqs)
Replace(r, r2) == (reqs (-) SetToBag({r})) (+) SetToBag({r2})

InitDefaultConfig ==
    [Skipper |-> "DefaultSkipper", Enforcer |-> NilEnforcer, AuthType |-> BasicAuth]

Init ==
    /\ DefaultConfig = InitDefaultConfig
    /\ mws = {}
    /\ reqs = EmptyBag

(***************************************************************************)
(* Construction.  An instance is the closure MiddlewareWithConfig returns: *)
(* the argument it was called with and the config it captured.             *)
(***************************************************************************)
\* The captured config: the argument, with a nil Skipper replaced.
WithDefaults(config, default) ==
    IF config.Skipper = NilSkipper
    THEN [config EXCEPT !.Skipper = default.Skipper]
    ELSE config

MiddlewareWithConfig(via, config) ==
    /\ Cardinality(mws) < MaxMiddlewares
    /\ mws' = mws \cup {[via |-> via, arg |-> config,
                         config |-> WithDefaults(config, DefaultConfig)]}
    /\ mws' # mws
    /\ UNCHANGED <<DefaultConfig, reqs>>

\* A variant that works on the package variable itself instead of a copy.
MiddlewareShared(ce) ==
    /\ DefaultConfig' = [DefaultConfig EXCEPT !.Enforcer = ce]
    /\ Cardinality(mws) < MaxMiddlewares
    /\ mws' = mws \cup {[via |-> "Middleware", arg |-> DefaultConfig',
                         config |-> WithDefaults(DefaultConfig', DefaultConfig')]}
    /\ mws' # mws
    /\ UNCHANGED reqs

\* c := DefaultConfig; c.Enforcer = ce; return MiddlewareWithConfig(c)
Middleware(ce) ==
    MiddlewareWithConfig("Middleware", [DefaultConfig EXCEPT !.Enforcer = ce])

(***************************************************************************)
(* The request handler.                                                    *)
(***************************************************************************)
\* config.Skipper(c).
SkipperResult(skipper, path) ==
    IF skipper = "SkipPublic" THEN path = "/public" ELSE FALSE

NewRequest(m, cred, p, mt) ==
    [pc |-> "skipper", mw |-> m, cred |-> cred, header |-> HeaderOf(cred),
     path |-> p, method |-> mt, skipped |-> "unknown", user |-> <<>>,
     calls |-> <<>>, ret |-> NoRet, nextCalls |-> 0, nextRet |-> "none",
     outcome |-> NoOutcome]

\* A request reaches the handler of instance m.
Begin(m, cred, p, mt) ==
    /\ BagCardinality(reqs) < MaxRequests
    /\ reqs' = reqs (+) SetToBag({NewRequest(m, cred, p, mt)})
    /\ UNCHANGED <<DefaultConfig, mws>>

\* A variant that evaluates the skipper and falls through to the check.
CallSkipperFallThrough(r) ==
    /\ r.pc = "skipper"
    /\ LET skip == SkipperResult(r.mw.config.Skipper, r.path)
       IN  reqs' = Replace(r, [r EXCEPT !.skipped = IF skip THEN "yes" ELSE "no",
                                        !.pc = "check"])
    /\ UNCHANGED <<DefaultConfig, mws>>

\* if config.Skipper(c) { return next(c) }
CallSkipper(r) ==
    /\ r.pc = "skipper"
    /\ IF SkipperResult(r.mw.config.Skipper, r.path)
       THEN \E ret \in NextRets :
                reqs' = Replace(r, [r EXCEPT !.skipped = "yes", !.nextCalls = @ + 1,
                                             !.nextRet = ret,
                                             !.outcome = NextOutcome(ret),
                                             !.pc = "done"])
       ELSE reqs' = Replace(r, [r EXCEPT !.skipped = "no", !.pc = "check"])
    /\ UNCHANGED <<DefaultConfig, mws>>

\* CheckPermission, first half: user := a.GetUserName(c), then method and path.
GetUserNameStep(r) ==
    /\ r.pc = "check"
    /\ LET u == GetUserName(r.mw.config.AuthType, r.header)
       IN  IF u.panic
           THEN reqs' = Replace(r, [r EXCEPT !.outcome = PanicOutcome, !.pc = "done"])
           ELSE reqs' = Replace(r, [r EXCEPT !.user = u.name, !.pc = "enforce"])
    /\ UNCHANGED <<DefaultConfig, mws>>

\* The values handed to Enforce, in order.
EnforceArgs(user, path, method) == <<user, path, method>>

\* Variants of the handler's decision: one lets every error-free answer through,
\* one looks at the boolean before the error.
DecideNilErrOnly(pass, err) ==
    IF err = NoErr THEN "next" ELSE "500"
DecidePassFirst(pass, err) ==
    IF pass THEN "next" ELSE IF err # NoErr THEN "500" ELSE "403"

\* if pass, err := ...; err == nil && pass {next} else if err != nil {500}; 403
Decide(pass, err) ==
    IF err = NoErr /\ pass THEN "next"
    ELSE IF err # NoErr THEN "500"
    ELSE "403"

\* CheckPermission, second half, and the handler's decision on what it returns.
\* Enforce on a nil *casbin.Enforcer dereferences nil.
EnforceStep(r) ==
    /\ r.pc = "enforce"
    /\ LET e == r.mw.config.Enforcer
           args == EnforceArgs(r.user, r.path, r.method)
       IN  IF e = NilEnforcer
           THEN reqs' = Replace(r,
                    [r EXCEPT !.calls = Append(@, [enforcer |-> e, args |-> args,
                                    returned |-> FALSE, pass |-> FALSE, err |-> "none"]),
                              !.outcome = PanicOutcome, !.pc = "done"])
           ELSE \E pass \in BOOLEAN, err \in EnforceErrs, ret \in NextRets :
                    LET d == Decide(pass, err)
                        called == [r EXCEPT
                            !.calls = Append(@, [enforcer |-> e, args |-> args,
                                    returned |-> TRUE, pass |-> pass, err |-> err]),
                            !.ret = [pass |-> pass, err |-> err],
                            !.pc = "done"]
                    IN  /\ d # "next" => ret = NoErr
                        /\ reqs' = Replace(r,
                            IF d = "next"
                            THEN [called EXCEPT !.nextCalls = @ + 1, !.nextRet = ret,
                                                !.outcome = NextOutcome(ret)]
                            ELSE IF d = "500"
                            THEN [called EXCEPT !.outcome = HTTPError(500, err)]
                            ELSE [called EXCEPT !.outcome = ErrForbidden])
    /\ UNCHANGED <<DefaultConfig, mws>>

\* The handler has returned (or the server recovered its panic).
Retire(r) ==
    /\ r.pc = "done"
    /\ reqs' = reqs (-) SetToBag({r})
    /\ UNCHANGED <<DefaultConfig, mws>>

(***************************************************************************)
(* Spec: one middleware instance of any configuration serves requests with *)
(* any of the enumerated credentials, one request at a time.               *)
(***************************************************************************)
Next ==
    \/ mws = {} /\ \E ce \in Enforcers \cup {NilEnforcer} : Middleware(ce)
    \/ mws = {} /\ \E config \in Configs :
            MiddlewareWithConfig("MiddlewareWithConfig", config)
    \/ reqs = EmptyBag /\ \E m \in mws, cred \in Creds, p \in Paths, mt \in Methods :
            Begin(m, cred, p, mt)
    \/ \E r \in InFlight : CallSkipper(r)
    \/ \E r \in InFlight : GetUserNameStep(r)
    \/ \E r \in InFlight : EnforceStep(r)
    \/ \E r \in InFlight : Retire(r)

Spec == Init /\ [][Next]_vars

(***************************************************************************)
(* SpecConcurrent: up to MaxMiddlewares instances serve up to MaxRequests  *)
(* requests at the same time, their steps interleaved.                     *)
(***************************************************************************)
ConcurrentConfigs ==
    { [Skipper |-> NilSkipper, Enforcer |-> "e1", AuthType |-> JwtAuth],
      [Skipper |-> "SkipPublic", Enforcer |-> "e2", AuthType |-> BasicAuth] }
\* Requests without credentials: the empty user name under BasicAuth, and the
\* aborting extraction under JwtAuth.
ConcurrentCreds == {NoCred}

NextConcurrent ==
    \/ Middleware("e1")
    \/ \E config \in ConcurrentConfigs :
            MiddlewareWithConfig("MiddlewareWithConfig", config)
    \/ \E m \in mws, cred \in ConcurrentCreds, p \in Paths : Begin(m, cred, p, "GET")
    \/ \E r \in InFlight : CallSkipper(r)
    \/ \E r \in InFlight : GetUserNameStep(r)
    \/ \E r \in InFlight : EnforceStep(r)
    \/ \E r \in InFlight : Retire(r)

SpecConcurrent == Init /\ [][NextConcurrent]_vars

(***************************************************************************)
(* Properties.                                                             *)
(***************************************************************************)
Done(r) == r.pc = "done"
\* The request's Enforce call came back with (pass, err).
Returned(r, pass, err) ==
    \E k \in 1..Len(r.calls) :
        r.calls[k].returned /\ r.calls[k].pass = pass /\ r.calls[k].err = err
ReturnedErr(r) ==
    \E k \in 1..Len(r.calls) : r.calls[k].returned /\ r.calls[k].err # NoErr
HasEnforcer(r) == r.mw.config.Enforcer # NilEnforcer

C2_EnforcerErrorIs500 ==
    \A r \in InFlight :
        (Done(r) /\ r.skipped = "no" /\ ReturnedErr(r)) =>
            /\ r.outcome = HTTPError(500, r.calls[1].err)
            /\ r.outcome # ErrForbidden
            /\ r.nextCalls = 0

C2_Witness ==
    \E r \in InFlight :
        /\ Done(r) /\ r.skipped = "no"
        /\ Returned(r, TRUE, "invalid request size")
        /\ r.outcome = HTTPError(500, "invalid request size")

\* C3 (as claimed): for every request that reaches CheckPermission, Enforce is
\* called exactly once with (GetUserName(request), path, method) and its pair
\* of results is returned unchanged.
C3_EnforceOnceWithTriple ==
    \A r \in InFlight :
        (Done(r) /\ r.skipped = "no" /\ HasEnforcer(r)) =>
            /\ Len(r.calls) = 1
            /\ r.calls[1].args =
                  <<GetUserName(r.mw.config.AuthType, r.header).name, r.path, r.method>>
            /\ r.ret = [pass |-> r.calls[1].pass, err |-> r.calls[1].err]

\* C4: a request the skipper skips gets the next handler exactly once and its
\* result unchanged; no user name is extracted and Enforce is never called.
C4_SkippedGoesStraightToNext ==
    \A r \in InFlight :
        r.skipped = "yes" =>
            /\ Done(r)
            /\ r.nextCalls = 1
            /\ r.outcome = NextOutcome(r.nextRet)
            /\ r.user = <<>>
            /\ r.calls = <<>>

C4_Witness ==
    \E r \in InFlight :
        /\ r.skipped = "yes" /\ Done(r)
        /\ r.mw.config.AuthType = JwtAuth /\ r.cred = NoCred
        /\ r.mw.config.Enforcer = NilEnforcer
        /\ r.outcome = NextOutcome("next failed")

\* The user name has been extracted from the request.
UserExtracted(r) == r.pc = "enforce" \/ (Done(r) /\ r.calls # <<>>)

\* C5 (as claimed): under BasicAuth the user name is that of the basic
\* credentials ("" without any); under JwtAuth it is the sub claim of every
\* well-formed bearer token that carries one; under any other AuthType it is "".
C5_UserNameByAuthType ==
    \A r \in InFlight :
        UserExtracted(r) =>
            LET a == r.mw.config.AuthType
            IN  /\ a = BasicAuth =>
                      r.user = (IF r.cred.kind = "basic" THEN r.cred.name ELSE <<>>)
                /\ (a = JwtAuth /\ r.cred.kind \in {"bearer", "bearer_iss"}) =>
                      r.user = r.cred.name
                /\ a \notin {BasicAuth, JwtAuth} => r.user = <<>>

\* C6 (as claimed): a middleware built by Middleware calls the next handler for
\* valid credentials, and answers 401 Unauthorized to a request with missing
\* or invalid credentials.
C6_MissingCredentialsGet401 ==
    \A r \in InFlight :
        (Done(r) /\ r.mw.via = "Middleware" /\ HasEnforcer(r)) =>
            /\ (r.cred.kind = "basic" /\ Returned(r, TRUE, NoErr)) => r.nextCalls = 1
            /\ r.cred.kind # "basic" => r.outcome = HTTPError(401, "Unauthorized")

\* C7 (as claimed): with a nil Skipper, and with Middleware(ce), the default
\* skipper is used and skips nothing, so that every request consults the
\* enforcer exactly once; Middleware(ce) captures the config MiddlewareWithConfig
\* captures for (default skipper, ce, BasicAuth).
C7_DefaultSkipperConsultsOnce ==
    /\ \A m \in mws :
          /\ (m.via = "Middleware" \/ m.arg.Skipper = NilSkipper) =>
                m.config.Skipper = "DefaultSkipper"
          /\ m.via = "Middleware" =>
                m.config = [Skipper |-> "DefaultSkipper", Enforcer |-> m.arg.Enforcer,
                            AuthType |-> BasicAuth]
    /\ \A r \in InFlight :
          (r.mw.via = "Middleware" \/ r.mw.arg.Skipper = NilSkipper) =>
              /\ r.skipped # "yes"
              /\ (Done(r) /\ HasEnforcer(r)) => Len(r.calls) = 1

\* C8 (as claimed): with a non-nil Enforcer the handler ends, for every request
\* and every AuthType, with the next handler's result, an HTTP 500 or the 403.
C8_HandlerNeverAborts ==
    \A r \in InFlight :
        (Done(r) /\ HasEnforcer(r)) =>
            \/ r.outcome = NextOutcome(r.nextRet) /\ r.nextCalls = 1
            \/ r.outcome.kind = "http" /\ r.outcome.code = 500
            \/ r.outcome = ErrForbidden

\* What the handler returns, from the request's own skipper answer, its own
\* user-name extraction and the answer to its own Enforce call.
OwnOutcome(r) ==
    IF r.skipped = "yes" THEN NextOutcome(r.nextRet)
    ELSE IF GetUserName(r.mw.arg.AuthType, r.header).panic THEN PanicOutcome
    ELSE IF ~r.calls[1].returned THEN PanicOutcome
    ELSE IF r.calls[1].err # NoErr THEN HTTPError(500, r.calls[1].err)
    ELSE IF r.calls[1].pass THEN NextOutcome(r.nextRet)
    ELSE ErrForbidden

\* C9: the package-level DefaultConfig is never written (its Enforcer stays
\* unset), every instance keeps the config it captured at construction, and,
\* however the steps of concurrent requests interleave, each request asks the
\* enforcer injected into its own instance about its own (user, path, method)
\* and its outcome is determined by its own skipper answer and its own Enforce
\* result.
C9_NoSharedMutableState ==
    /\ DefaultConfig = InitDefaultConfig
    /\ \A m \in mws : m.config = WithDefaults(m.arg, InitDefaultConfig)
    /\ \A r \in InFlight :
          /\ r.mw \in mws
          /\ \A k \in 1..Len(r.calls) :
                /\ r.calls[k].enforcer = r.mw.arg.Enforcer
                /\ r.calls[k].args = <<r.user, r.path, r.method>>
          /\ Done(r) => r.outcome = OwnOutcome(r)

C9_Witness ==
    \E r1, r2 \in InFlight :
        /\ r1.mw # r2.mw /\ r1.mw.arg.Enforcer # r2.mw.arg.Enforcer
        /\ r1.path = r2.path /\ r1.cred = r2.cred
        /\ Done(r1) /\ Done(r2)
        /\ Returned(r1, TRUE, NoErr) /\ r1.outcome.kind = "next"
        /\ Returned(r2, FALSE, NoErr) /\ r2.outcome = ErrForbidden

=============================================================================
